---- MODULE Spec2Model ----
(***************************************************************************)
(* Model of the CHS data flag codec of ufz/level1/getset_flag.py:          *)
(* get_flag, set_flag and get_maxflag over arrays of integer flag codes.   *)
(*                                                                         *)
(* Arrays are sequences; the source indexes them from 0, the model from 1. *)
(* The arrays are numpy int64 arrays: every value the model reaches is     *)
(* below 10^(MaxN+2), far from 2^63, so no operation of the model wraps.   *)
(* np.log10(x).astype(np.int) truncates a float64 logarithm; for the codes *)
(* of the model (below 10^14) the truncation is floor(log10(x)).           *)
(***************************************************************************)
EXTENDS Integers, Sequences, FiniteSets, TLC

\* ------------------------------------------------------------------ bounds
\* longest array of codes passed to the functions
MaxLen == 2
\* number of sub-flag digits of the codes the caller starts with
MaxSub == 3
\* largest position n passed to get_flag / set_flag
MaxN == 3
\* largest sub-flag value (0 = ok, 1 = warning, 2 = error)
MaxFlag == 2
\* number of sub-flag digits of the codes with sub-flags of any digit
MaxWideSub == 2

\* most variables of a netCDF file read by readnetcdf
MaxVars == 2

\* most lines of a remote file and most characters of one of its lines
MaxFtpLines == 2
MaxLineLen == 1

\* largest magnitude of the numbers passed to division and heaviside
MaxVal == 2

\* most lines of a file read by sread
MaxLines == 3
\* most columns of a line of such a file
MaxCols == 3
\* largest number of lines (skip) and of columns (cskip) sread is told to skip
MaxSkip == 1
MaxCskip == 1

\* --------------------------------------------------------- program constants
\* the missing value of the CHS flag vector
Sentinel == -9999
\* number of sub-flag positions get_maxflag scans
n_flags_precip == 18

\* the optional argument ii: None (set every entry) or a set of indices
None == [none |-> TRUE, idx |-> {}]
Indices(s) == [none |-> FALSE, idx |-> s]

\* --------------------------------------------------------------- arithmetic
RECURSIVE Pow10(_)
\* 10**k for k >= 0
Pow10(k) == IF k <= 0 THEN 1 ELSE 10 * Pow10(k - 1)

RECURSIVE ilog10_below(_)
\* ilog10 with log10 falling just short at the exact powers of ten: 10**k
\* gives k-1
ilog10_below(x) == IF x <= 10 THEN 0 ELSE 1 + ilog10_below(((x - 1) \div 10) + 1)

RECURSIVE ilog10(_)
\* np.log10(x).astype(np.int) of a positive integer: number of digits - 1
ilog10(x) == IF x < 10 THEN 0 ELSE 1 + ilog10(x \div 10)

Max(a, b) == IF a >= b THEN a ELSE b

\* ----------------------------------------------------------------- get_flag
\* get_flag_elem with the position counted from the least significant digit
get_flag_elem_from_right(c, n) ==
    IF c <= 0
    THEN -2
    ELSE IF (ilog10(c) - n) >= 0
         THEN (c \div Pow10(n)) % 10
         ELSE -1

\* get_flag_elem with the missing test flags < 0 instead of flags <= 0
get_flag_elem_zero_positive(c, n) ==
    IF c < 0
    THEN -2
    ELSE IF (ilog10(c) - n) >= 0
         THEN (c \div Pow10(ilog10(c) - n)) % 10
         ELSE -1

\* get_flag_elem with out initialised to 0 instead of -1
get_flag_elem_absent_zero(c, n) ==
    IF c <= 0
    THEN -2
    ELSE IF (ilog10(c) - n) >= 0
         THEN (c \div Pow10(ilog10(c) - n)) % 10
         ELSE 0

\* get_flag_elem as the docstring words it: -1 below 10**(n+1)
get_flag_elem_docstring(c, n) ==
    IF c <= 0
    THEN -2
    ELSE IF (ilog10(c) - n) > 0
         THEN (c \div Pow10(ilog10(c) - n)) % 10
         ELSE -1

\* get_flag_elem taking sub-flag n at index (number of digits - n)
get_flag_elem_length_minus_n(c, n) ==
    IF c <= 0
    THEN -2
    ELSE IF (ilog10(c) - n) >= 0
         THEN IF n = 0
              THEN (c \div Pow10(ilog10(c))) % 10
              ELSE (c \div Pow10(n - 1)) % 10
         ELSE -1

\* one element of get_flag(flags, n)
get_flag_elem(c, n) ==
    IF c <= 0
    THEN -2                                            \* deal with -9999
    ELSE IF (ilog10(c) - n) >= 0
         THEN (c \div Pow10(ilog10(c) - n)) % 10       \* extract n-th digit
         ELSE -1                                       \* not enough digits

\* get_flag taking the number of digits of every entry from the first entry
get_flag_shared_ilog10(flags, n) ==
    [i \in DOMAIN flags |->
        IF flags[i] <= 0
        THEN -2
        ELSE IF (ilog10(flags[1]) - n) >= 0
             THEN (flags[i] \div Pow10(ilog10(flags[1]) - n)) % 10
             ELSE -1]

get_flag(flags, n) == [i \in DOMAIN flags |-> get_flag_elem(flags[i], n)]

\* 10**x of an integer array x raises ValueError when an exponent is negative
int_power_raises(exps) == \E e \in exps : e < 0

\* get_flag_exponents without the selection (ilog10-n) >= 0
get_flag_exponents_unguarded(flags, n) ==
    {ilog10(flags[i]) - n : i \in {j \in DOMAIN flags : flags[j] > 0}}

\* the exponents ilog10[ii]-n get_flag raises 10 to: those of the positive
\* entries selected by ii = np.where((ilog10-n) >= 0)
get_flag_exponents(flags, n) ==
    {ilog10(flags[i]) - n :
        i \in {j \in DOMAIN flags : flags[j] > 0 /\ (ilog10(flags[j]) - n) >= 0}}

get_flag_raises(flags, n) == int_power_raises(get_flag_exponents(flags, n))

\* -------------------------------------------------------------- get_maxflag
RECURSIVE cumflag_skip_first(_, _)
\* cumflag_upto with the loop starting at position 2
cumflag_skip_first(c, k) ==
    IF k <= 1 THEN -2
    ELSE Max(cumflag_skip_first(c, k - 1), get_flag_elem(c, k))

RECURSIVE cumflag_from_zero(_, _)
\* cumflag_upto with cumflag starting at 0
cumflag_from_zero(c, k) ==
    IF k = 0 THEN 0
    ELSE Max(cumflag_from_zero(c, k - 1), get_flag_elem(c, k))

RECURSIVE cumflag_from_minus1(_, _)
\* cumflag_upto with cumflag starting at -1
cumflag_from_minus1(c, k) ==
    IF k = 0 THEN -1
    ELSE Max(cumflag_from_minus1(c, k - 1), get_flag_elem(c, k))

RECURSIVE cumflag_capped(_, _)
\* cumflag_upto taking every sub-flag above 2 for 2
cumflag_capped(c, k) ==
    IF k = 0 THEN -2
    ELSE Max(cumflag_capped(c, k - 1),
             IF get_flag_elem(c, k) > 2 THEN 2 ELSE get_flag_elem(c, k))

RECURSIVE cumflag_upto(_, _)
\* cumflag after the loop has run ii = 1..k, for one element
cumflag_upto(c, k) ==
    IF k = 0 THEN -2
    ELSE Max(cumflag_upto(c, k - 1), get_flag_elem(c, k))

get_maxflag(flags) == [i \in DOMAIN flags |-> cumflag_upto(flags[i], n_flags_precip)]

get_maxflag_raises(flags) ==
    \E k \in 1..n_flags_precip : get_flag_raises(flags, k)

\* ----------------------------------------------------------------- set_flag
\* The array objects of a call: the caller's array and the array set_flag
\* works on.  A heap maps each object to its contents.
Refs == {"caller", "local"}

\* ndarray_copy without the copy: fflags = flags names the caller's array
ndarray_alias(heap, src) == [heap |-> heap, ref |-> src]

\* fflags = flags.copy(): a new array object with the contents of src
ndarray_copy(heap, src) ==
    [heap |-> [heap EXCEPT !["local"] = heap[src]], ref |-> "local"]

\* extend_flags multiplying by 10**n, whatever digits the entry has already
extend_flags_by_n(fflags, n) ==
    [i \in DOMAIN fflags |->
        IF ilog10(fflags[i]) < n
        THEN fflags[i] * Pow10(n)
        ELSE fflags[i]]

\* extend flag vector if needed: entries with ilog10 < n are multiplied by
\* 10**(n-ilog10), whether or not their index is in ii
extend_flags(fflags, n) ==
    [i \in DOMAIN fflags |->
        IF ilog10(fflags[i]) < n
        THEN fflags[i] * Pow10(n - ilog10(fflags[i]))
        ELSE fflags[i]]

\* add_delta with the difference taken the wrong way round
add_delta_swapped(fflags, n, iflag, ii) ==
    LET isflags == get_flag(fflags, n)
    IN  [i \in DOMAIN fflags |->
            IF ii.none \/ i \in ii.idx
            THEN fflags[i] + Pow10(ilog10(fflags[i]) - n) * (isflags[i] - iflag)
            ELSE fflags[i]]

\* add_delta adding the delta one digit too far to the left
add_delta_wrong_position(fflags, n, iflag, ii) ==
    LET isflags == get_flag(fflags, n)
    IN  [i \in DOMAIN fflags |->
            IF ii.none \/ i \in ii.idx
            THEN fflags[i] + Pow10(ilog10(fflags[i]) - n + 1) * (iflag - isflags[i])
            ELSE fflags[i]]

\* add_delta adding iflag without taking the present digit off
add_delta_no_subtract(fflags, n, iflag, ii) ==
    [i \in DOMAIN fflags |->
        IF ii.none \/ i \in ii.idx
        THEN fflags[i] + Pow10(ilog10(fflags[i]) - n) * iflag
        ELSE fflags[i]]

\* add_delta setting every entry, whatever ii
add_delta_everywhere(fflags, n, iflag, ii) ==
    LET isflags == get_flag(fflags, n)
    IN  [i \in DOMAIN fflags |->
            fflags[i] + Pow10(ilog10(fflags[i]) - n) * (iflag - isflags[i])]

\* set entries in flag vector: fflags += 10**(ilog10-n) * (iflag-isflags),
\* at every index (ii is None) or at the indices ii
add_delta(fflags, n, iflag, ii) ==
    LET isflags == get_flag(fflags, n)
    IN  [i \in DOMAIN fflags |->
            IF ii.none \/ i \in ii.idx
            THEN fflags[i] + Pow10(ilog10(fflags[i]) - n) * (iflag - isflags[i])
            ELSE fflags[i]]

\* set_flag(flags, n, iflag, ii) on positive codes: the heap after the call
\* and the array object it returns
set_flag(heap, flags, n, iflag, ii) ==
    LET c       == ndarray_copy(heap, flags)
        fflags  == c.ref
        heap1   == [c.heap EXCEPT ![fflags] = extend_flags(c.heap[fflags], n)]
        heap2   == [heap1 EXCEPT ![fflags] = add_delta(heap1[fflags], n, iflag, ii)]
    IN  [heap |-> heap2, ret |-> fflags]

\* the exponents set_flag raises 10 to: n-ilog10[jj] when it extends, and
\* ilog10-n (ii is None) or ilog10[ii]-n of the extended entries when it sets
set_flag_exponents(flags, n, ii) ==
    LET ext == extend_flags(flags, n)
    IN  {n - ilog10(flags[i]) : i \in {j \in DOMAIN flags : ilog10(flags[j]) < n}}
        \cup {ilog10(ext[i]) - n : i \in {j \in DOMAIN flags : ii.none \/ j \in ii.idx}}

set_flag_raises(flags, n, ii) ==
    \/ int_power_raises(set_flag_exponents(flags, n, ii))
    \/ get_flag_raises(extend_flags(flags, n), n)

\* the array set_flag returns when the caller's array holds a
set_flag_value(a, n, iflag, ii) ==
    LET r == set_flag([x \in Refs |-> IF x = "caller" THEN a ELSE << >>],
                      "caller", n, iflag, ii)
    IN  r.heap[r.ret]

\* ------------------------------------------------------------------- inputs
\* primary code digits of the codes the caller starts with, ascending
LeadDigits == <<1, 9>>

\* the codes of prev, each followed by one more sub-flag digit 0..MaxFlag
WithSubFlag(prev) ==
    [j \in 1..(Len(prev) * (MaxFlag + 1)) |->
        10 * prev[((j - 1) \div (MaxFlag + 1)) + 1] + ((j - 1) % (MaxFlag + 1))]

RECURSIVE CodesWith(_)
\* the positive codes with k sub-flag digits, ascending
CodesWith(k) == IF k = 0 THEN LeadDigits ELSE WithSubFlag(CodesWith(k - 1))

RECURSIVE CodesUpTo(_)
\* the positive codes with at most k sub-flag digits, ascending
CodesUpTo(k) ==
    IF k = 0 THEN CodesWith(0) ELSE CodesUpTo(k - 1) \o CodesWith(k)

\* missing value, zero and the positive codes
CodeList == <<Sentinel, 0>> \o CodesUpTo(MaxSub)

\* The functions work elementwise, so the arrays of the model are the runs of
\* up to MaxLen consecutive codes of the ascending code list:
\* <<-9999>>, <<-9999, 0>>, <<9, 10>>, <<12, 90>>, <<122, 900>>, ...
Arrays ==
    UNION {{SubSeq(CodeList, s, s + len - 1) : s \in 1..(Len(CodeList) - len + 1)} :
                len \in 1..MaxLen}

Positions == 0..MaxN

\* an index selection: None or a set of indices of the array
IndexSets(a) == {None} \cup {Indices(s) : s \in SUBSET (DOMAIN a)}

AllPositive(a) == \A i \in DOMAIN a : a[i] > 0

\* codes whose sub-flags are any decimal digit: a primary digit followed by
\* up to MaxWideSub digits 0..9
RECURSIVE WideCodes(_)
WideCodes(k) ==
    IF k = 0 THEN {LeadDigits[j] : j \in DOMAIN LeadDigits}
    ELSE WideCodes(k - 1)
            \cup {10 * c + d : c \in WideCodes(k - 1), d \in 0..9}

\* ================================================================ division.py
\* Numbers are fractions [num, den] with den > 0 in lowest terms; np.nan is
\* [0, 0] and the result of a division by zero (masked by np.ma) is [1, 0].
RECURSIVE Gcd(_, _)
Gcd(x, y) == IF y = 0 THEN x ELSE Gcd(y, x % y)

Abs(x) == IF x < 0 THEN -x ELSE x

Number(k) == [num |-> k, den |-> 1]
NaN == [num |-> 0, den |-> 0]
DivByZero == [num |-> 1, den |-> 0]

\* np.ma.array(a)/np.ma.array(b) for one element
true_divide(x, y) ==
    IF y = 0 THEN DivByZero
    ELSE LET g  == Gcd(Abs(x), Abs(y))
             sg == IF y < 0 THEN -1 ELSE 1
         IN  [num |-> sg * (x \div g), den |-> Abs(y) \div g]

\* division with the test |b| >= |prec|
division_ge(a, b, otherwise, prec) ==
    [i \in DOMAIN a |->
        IF Abs(b[i]) >= Abs(prec) THEN true_divide(a[i], b[i]) ELSE otherwise]

\* np.where(np.ma.abs(b) > np.abs(prec), a/b, otherwise): np.where takes a/b
\* where the test holds and otherwise elsewhere
division(a, b, otherwise, prec) ==
    [i \in DOMAIN a |->
        IF Abs(b[i]) > Abs(prec) THEN true_divide(a[i], b[i]) ELSE otherwise]

\* div(*args, **kwargs): the wrapper hands its arguments to division
div(a, b, otherwise, prec) == division(a, b, otherwise, prec)

\* the numbers -MaxVal..MaxVal, ascending, and the runs of them
ValList == [k \in 1..(2 * MaxVal + 1) |-> k - MaxVal - 1]

NumArrays ==
    UNION {{SubSeq(ValList, s, s + len - 1) : s \in 1..(Len(ValList) - len + 1)} :
                len \in 1..MaxLen}

\* the values given for otherwise: the default np.nan, or a number
Otherwises == {NaN, Number(0)}

\* =============================================================== heaviside.py
\* (k if test else 0): np.where(test, 1., 0.) for one element
Where10(test) == IF test THEN 1 ELSE 0

\* heaviside_out with unitstep testing x > 0
heaviside_out_strict(x, value, unitstep, zero) ==
    [i \in DOMAIN x |->
        IF zero THEN Number(Where10(x[i] > 0) * value)
        ELSE IF unitstep THEN Number(Where10(x[i] > 0) * value)
        ELSE true_divide((Where10(x[i] > 0) - Where10(x[i] < 0) + 1) * value, 2)]

\* the array heaviside computes: out, then out *= value
heaviside_out(x, value, unitstep, zero) ==
    [i \in DOMAIN x |->
        IF zero THEN Number(Where10(x[i] > 0) * value)
        ELSE IF unitstep THEN Number(Where10(x[i] >= 0) * value)
        ELSE true_divide((Where10(x[i] > 0) - Where10(x[i] < 0) + 1) * value, 2)]

\* heaviside(x, value, unitstep, zero): how the call ends ("exception" for
\* the ValueError, "array" for a returned array) and what it returns
heaviside(x, value, unitstep, zero) ==
    IF zero /\ unitstep
    THEN [kind |-> "exception", out |-> << >>]
    ELSE [kind |-> "array", out |-> heaviside_out(x, value, unitstep, zero)]

\* =================================================================== sread.py
\* A file is a sequence of lines.  A line is known by its number of
\* whitespace-separated fields after rstrip() (0: a blank line) and by whether
\* its first character is the comment character.  The field in column c
\* (from 0) of line r (from 1) is the token <<r, c>>.
Lines ==
    {[cols |-> 0, comment |-> FALSE]} \cup [cols : 1..MaxCols, comment : BOOLEAN]

Files == UNION {[1..n -> Lines] : n \in 0..MaxLines}

\* the value put in place of a missing column; no field of the file equals it
fill_value == <<0, 0>>

\* len(s) == 0 after rstrip()
IsBlank(l) == l.cols = 0

\* comment != '' and s[0] in comment
IsComment(l, comment) == comment /\ l.cols > 0 /\ l.comment

\* lif(file, skip=skip, noblank=skip_blank, comment=comment): the number of
\* lines after the first skip lines, not counting blank lines if noblank nor
\* comment lines if a comment character is given
lif(file, skip, noblank, comment) ==
    Cardinality({r \in (skip + 1)..Len(file) :
                    /\ ~(noblank /\ IsBlank(file[r]))
                    /\ ~IsComment(file[r], comment)})

\* nres = len(s.split(None)) of line r; readline() past the end gives ''
Nres(file, r) == IF r \in DOMAIN file THEN file[r].cols ELSE 0

\* The first loop: the line the indices are determined from.  Comment lines
\* are passed over; blank lines are passed over only with skip_blank.
FirstLine(file, skip, skip_blank, comment) ==
    LET stops(r) == /\ ~IsComment(file[r], comment)
                    /\ ~(skip_blank /\ IsBlank(file[r]))
        rs == {r \in (skip + 1)..Len(file) : stops(r)}
    IN  IF rs = {} THEN Len(file) + 1
        ELSE CHOOSE r \in rs : \A q \in rs : r <= q

\* np.arange(nnc) + cskip, as a sequence (empty for nnc <= 0)
Arange(nnc, cskip) == [j \in 1..nnc |-> j - 1 + cskip]

\* nc is 0 (all columns after cskip), a number of columns, or a list of indices
NcAll == [kind |-> "all", n |-> 0, cols |-> << >>]
NcCount(n) == [kind |-> "count", n |-> n, cols |-> << >>]
NcList(cols) == [kind |-> "list", n |-> 0, cols |-> cols]

\* "Determine indeces": nnc and iinc
Nnc(nc, nres, cskip) ==
    IF nc.kind = "all" THEN nres - cskip
    ELSE IF nc.kind = "count" THEN nc.n
    ELSE Len(nc.cols)

Iinc(nc, nres, cskip) ==
    IF nc.kind = "list" THEN nc.cols ELSE Arange(Nnc(nc, nres, cskip), cskip)

\* max(iinc) of a non-empty iinc
Miinc(iinc) == CHOOSE m \in {iinc[j] : j \in DOMAIN iinc} :
                  \A j \in DOMAIN iinc : iinc[j] <= m

\* for i in iinc: if iinc[i] < nres: tmp.append(res[i]); m += 1
\* iinc is indexed by its own element i, and so is res: either raises
\* IndexError when i is past the end
RECURSIVE FillLoop(_, _, _, _, _)
FillLoop(r, nres, iinc, j, tmp) ==
    IF j > Len(iinc) THEN [kind |-> "ok", cells |-> tmp]
    ELSE LET i == iinc[j]
         IN  IF i >= Len(iinc) THEN [kind |-> "IndexError", cells |-> << >>]
             ELSE IF iinc[i + 1] < nres
                  THEN IF i >= nres
                       THEN [kind |-> "IndexError", cells |-> << >>]
                       ELSE FillLoop(r, nres, iinc, j + 1, Append(tmp, <<r, i>>))
                  ELSE FillLoop(r, nres, iinc, j + 1, tmp)

\* for i in range(nnc-m): tmp.append(fill_value)
Fills(k) == [j \in 1..k |-> fill_value]

\* One line of nres fields made into a row: the selected columns, or, when
\* the line is too short, the filled row (fill) or None.
Row(r, nres, iinc, nnc, fill) ==
    IF Miinc(iinc) >= nres
    THEN IF fill
         THEN LET sel == FillLoop(r, nres, iinc, 1, << >>)
              IN  IF sel.kind = "ok"
                  THEN [kind |-> "ok",
                        cells |-> sel.cells \o Fills(nnc - Len(sel.cells))]
                  ELSE sel
         ELSE [kind |-> "None", cells |-> << >>]
    ELSE [kind |-> "ok", cells |-> [j \in DOMAIN iinc |-> <<r, iinc[j]>>]]

\* while k < nr: the lines after the first one.  r is the next line to read,
\* var the rows so far, each with the line it was made from.
RECURSIVE ReadLines(_, _, _, _, _, _, _, _, _, _)
ReadLines(file, r, k, nr, iinc, nnc, skip_blank, comment, fill, var) ==
    IF k >= nr THEN [kind |-> "rows", var |-> var]
    ELSE IF Nres(file, r) = 0
    THEN IF skip_blank
         THEN IF r > Len(file)
              THEN [kind |-> "hang", var |-> << >>]
              ELSE ReadLines(file, r + 1, k, nr, iinc, nnc, skip_blank,
                             comment, fill, var)
         ELSE [kind |-> "rows", var |-> var]
    ELSE IF IsComment(file[r], comment)
    THEN ReadLines(file, r + 1, k, nr, iinc, nnc, skip_blank, comment, fill, var)
    ELSE LET tmp == Row(r, file[r].cols, iinc, nnc, fill)
         IN  IF tmp.kind # "ok" THEN [kind |-> tmp.kind, var |-> << >>]
             ELSE ReadLines(file, r + 1, k + 1, nr, iinc, nnc, skip_blank,
                            comment, fill,
                            Append(var, [line |-> r, cells |-> tmp.cells]))

\* sread(file, nc, cskip, skip, fill=fill, fill_value, comment, skip_blank)
\* with the separator found to be whitespace and no header asked for: what
\* the call does (kind: "None", one "row" for nr = 1, "rows", or the
\* exception raised) and the rows, with nr, iinc and nnc as it determined them
sread(file, nc, cskip, skip, fill, comment, skip_blank) ==
    LET nr == lif(file, skip, skip_blank, comment)
        r1 == FirstLine(file, skip, skip_blank, comment)
        nres == Nres(file, r1)
        nnc == Nnc(nc, nres, cskip)
        iinc == Iinc(nc, nres, cskip)
        res(kind, var) ==
            [kind |-> kind, var |-> var, nr |-> nr, iinc |-> iinc, nnc |-> nnc]
    IN  IF nr <= 0
        THEN [kind |-> "None", var |-> << >>, nr |-> nr, iinc |-> << >>, nnc |-> 0]
        ELSE IF r1 > Len(file) /\ skip_blank THEN res("hang", << >>)
        ELSE IF iinc = << >> THEN res("ValueError", << >>)
        ELSE LET tmp == Row(r1, nres, iinc, nnc, fill)
                 var == <<[line |-> r1, cells |-> tmp.cells]>>
             IN  IF tmp.kind # "ok" THEN res(tmp.kind, << >>)
                 ELSE IF nr = 1 THEN res("row", var)
                 ELSE LET rest == ReadLines(file, r1 + 1, 1, nr, iinc, nnc,
                                            skip_blank, comment, fill, var)
                      IN  res(rest.kind, rest.var)

\* ------------------------------------------------------------ sread: inputs
Columns == 0..(MaxCols - 1)

\* lists of column indices: one column, or two different ones in either order
NcLists ==
    {<<a>> : a \in Columns}
        \cup {l \in Columns \X Columns : l[1] # l[2]}

Ncs == {NcAll} \cup {NcCount(n) : n \in 1..MaxCols} \cup {NcList(l) : l \in NcLists}

\* ============================================================== readnetcdf.py
\* A netCDF file is the sequence of its variables in the order of
\* f.variables.keys().  A variable has a name, unique in the file, and some
\* of the attributes code, units and long_name.  Names are numbered in the
\* order sorted() ranks them.  A string is a sequence: '' is << >>.
AttrPatterns == {{}, {"units", "long_name"}, {"code", "units", "long_name"}}

NcVariables == [name : 1..MaxVars, attrs : AttrPatterns]

NcFiles ==
    UNION {{f \in [1..n -> NcVariables] :
                \A i, j \in 1..n : i # j => f[i].name # f[j].name} :
           n \in 0..MaxVars}

\* getattr(f.variables[v], 'code'), 'units' and 'long_name' of variable v
CodeOf(v) == 127 + v.name
UnitsOf(v) == <<"units", v.name>>
LongNameOf(v) == <<"long_name", v.name>>

\* vars = f.variables.keys()
Vars(f) == [i \in DOMAIN f |-> f[i].name]

RECURSIVE Insert(_, _)
Insert(x, s) ==
    IF s = << >> THEN <<x>>
    ELSE IF x <= Head(s) THEN <<x>> \o s
    ELSE <<Head(s)>> \o Insert(x, Tail(s))

RECURSIVE sorted(_)
\* sorted(vars): the names in ascending order
sorted(s) == IF s = << >> THEN << >> ELSE Insert(Head(s), sorted(Tail(s)))

\* vars.index(v): the first position of v
index(s, v) ==
    CHOOSE p \in DOMAIN s : s[p] = v /\ \A q \in DOMAIN s : s[q] = v => p <= q

\* Ivars without the sort: every name keeps its place
Ivars_in_file_order(vars) == [j \in DOMAIN vars |-> j]

\* for v in svars: ivars.append(vars.index(v))
Ivars(vars) == [j \in DOMAIN vars |-> index(vars, sorted(vars)[j])]

\* cods, unis, longs: the attribute of every variable, in the order of vars,
\* with -1 and '' for a variable without it
Cods(f) == [i \in DOMAIN f |-> IF "code" \in f[i].attrs THEN CodeOf(f[i]) ELSE -1]
Unis(f) == [i \in DOMAIN f |-> IF "units" \in f[i].attrs THEN UnitsOf(f[i]) ELSE << >>]
Longs(f) ==
    [i \in DOMAIN f |-> IF "long_name" \in f[i].attrs THEN LongNameOf(f[i]) ELSE << >>]

\* [list[i] for i in ivars]
Reordered(list, ivars) == [j \in DOMAIN ivars |-> list[ivars[j]]]

\* np.compress(scods != -1, scods) of an array
Compress(scods) == SelectSeq(scods, LAMBDA c : c # -1)

\* nn = list.count(''); list.remove('') nn times
RemoveEmpty(list) == SelectSeq(list, LAMBDA u : u # << >>)

\* an array cut to the length of a one-entry condition
FirstOnly(list) == IF list = << >> THEN << >> ELSE <<list[1]>>

ListResult(ret) == [kind |-> "list", ret |-> ret]
RaisesValueError == [kind |-> "ValueError", ret |-> << >>]

\* readnetcdf(file, reform=reform, variables=variables, codes=codes,
\* units=units, longnames=longnames, sort=sort), var, code and attributes
\* left at their defaults: the results the call can have.  With codes, sort
\* and reform, scods is a list, scods != -1 is the one value True, and
\* np.compress either rejects the condition or keeps the first entry only.
readnetcdf(f, reform, variables, codes, units, longnames, sort) ==
    LET vars_ == Vars(f)
        ivars == Ivars(vars_)
        pick(list) == IF sort THEN Reordered(list, ivars) ELSE list
    IN  IF variables THEN {ListResult(IF sort THEN sorted(vars_) ELSE vars_)}
        ELSE IF codes
        THEN IF reform
             THEN IF sort
                  THEN {RaisesValueError, ListResult(FirstOnly(pick(Cods(f))))}
                  ELSE {ListResult(Compress(Cods(f)))}
             ELSE {ListResult(pick(Cods(f)))}
        ELSE IF units
        THEN {ListResult(IF reform THEN RemoveEmpty(pick(Unis(f))) ELSE pick(Unis(f)))}
        ELSE IF longnames
        THEN {ListResult(IF reform THEN RemoveEmpty(pick(Longs(f))) ELSE pick(Longs(f)))}
        ELSE {RaisesValueError}

\* ===================================================================== ftp.py
\* A remote file is a sequence of lines.  A line has len characters and ends
\* with eol bytes: 1 (LF), 2 (CR LF) or, for a last line without an end, 0.
RemoteLines == {l \in [len : 0..MaxLineLen, eol : 0..2] : l.eol = 0 => l.len > 0}

RemoteFiles ==
    UNION {{f \in [1..n -> RemoteLines] : \A i \in 1..(n - 1) : f[i].eol > 0} :
           n \in 0..MaxFtpLines}

RECURSIVE Written(_, _)
\* the bytes written for the lines of f when every line is ended with ending
\* bytes; ending = -1 keeps the ending each line has
Written(f, ending) ==
    IF f = << >> THEN 0
    ELSE Head(f).len + (IF ending = -1 THEN Head(f).eol ELSE ending)
            + Written(Tail(f), ending)

\* the size of a file in bytes, as the directory listing and os.stat give it
Bytes(f) == Written(f, -1)

\* get_size(ftp, fname): the size column of the listing of the file
get_size(remote) == Bytes(remote)

\* the size of the local file after get_binary, get_unix_ascii (every line
\* written with '\n') and get_windows_ascii (every line written with '\r\n')
\* have closed it
get_binary(remote) == Bytes(remote)
get_unix_ascii(remote) == Written(remote, 1)
get_windows_ascii(remote) == Written(remote, 2)

GetCheckFunctions ==
    {"get_check_binary", "get_check_unix_ascii", "get_check_windows_ascii"}

\* the download each get_check_* function makes
Download(fn, remote) ==
    IF fn = "get_check_binary" THEN get_binary(remote)
    ELSE IF fn = "get_check_unix_ascii" THEN get_unix_ascii(remote)
    ELSE get_windows_ascii(remote)

\* get_check accepting a local file that is at least as long as the remote one
get_check_not_shorter(rsize, lsize) == lsize >= rsize

\* if rsize == lsize: return True else: return False
get_check(rsize, lsize) == IF rsize = lsize THEN TRUE ELSE FALSE

\* what the server can have made of the file between the listing and the
\* retrieval: a line more, or the last line gone
Modified(remote) ==
    (IF Len(remote) < MaxFtpLines /\ (remote = << >> \/ remote[Len(remote)].eol > 0)
     THEN {Append(remote, l) : l \in RemoteLines}
     ELSE {})
        \cup (IF remote = << >> THEN {} ELSE {SubSeq(remote, 1, Len(remote) - 1)})

\* -------------------------------------------------------------------- state
VARIABLES
    flags,      \* the caller's array of flag codes
    out,        \* the array the last call returned
    call,       \* the last call: its name and arguments
    raised,     \* the last call of the flag codec ended in an exception
    dcall,      \* division.py: the call of division / div and its result
    hcall,      \* heaviside.py: the call of heaviside and its result
    scall,      \* sread.py: the file, the call of sread and its result
    ncall,      \* readnetcdf.py: the file, the call of readnetcdf and its result
    fcall       \* ftp.py: the remote and local file and the get_check_* call

vars == <<flags, out, call, raised, dcall, hcall, scall, ncall, fcall>>

\* the variables of the flag codec, of division, of heaviside and of sread
flagvars == <<flags, out, call, raised>>

NoCall == [op |-> "none", n |-> 0, iflag |-> 0, ii |-> None]

\* a module none of whose functions is called in the behaviour
Idle == [op |-> "idle"]

\* no call of the flag codec
FlagsIdle ==
    /\ flags = << >>
    /\ out = << >>
    /\ call = [op |-> "idle", n |-> 0, iflag |-> 0, ii |-> None]
    /\ raised = FALSE

Init ==
    /\ flags \in Arrays
    /\ out = << >>
    /\ call = NoCall
    /\ raised = FALSE
    /\ dcall = Idle
    /\ hcall = Idle
    /\ scall = Idle
    /\ ncall = Idle
    /\ fcall = Idle

\* A behaviour is one call of one of the three functions on the caller's
\* array: the functions keep no state between calls.

\* out = get_flag(flags, n)
GetFlag ==
    \E n \in Positions :
        /\ call.op = "none"
        /\ raised' = get_flag_raises(flags, n)
        /\ out' = IF raised' THEN << >> ELSE get_flag(flags, n)
        /\ call' = [op |-> "get_flag", n |-> n, iflag |-> 0, ii |-> None]
        /\ UNCHANGED <<flags, dcall, hcall, scall, ncall, fcall>>

\* out = set_flag(flags, n, iflag, ii), flags an array of positive codes.
\* For an entry <= 0 np.log10 gives nan or -inf, whose cast to an integer
\* depends on the platform: set_flag is modelled on positive codes only.
SetFlag ==
    \E n \in 1..MaxN, iflag \in 0..MaxFlag, ii \in IndexSets(flags) :
        /\ call.op = "none"
        /\ AllPositive(flags)
        /\ raised' = set_flag_raises(flags, n, ii)
        /\ LET r == set_flag([x \in Refs |-> IF x = "caller" THEN flags ELSE << >>],
                             "caller", n, iflag, ii)
           IN  /\ flags' = r.heap["caller"]
               /\ out' = IF raised' THEN << >> ELSE r.heap[r.ret]
        /\ call' = [op |-> "set_flag", n |-> n, iflag |-> iflag, ii |-> ii]
        /\ UNCHANGED <<dcall, hcall, scall, ncall, fcall>>

\* out = get_maxflag(flags)
GetMaxflag ==
    /\ call.op = "none"
    /\ raised' = get_maxflag_raises(flags)
    /\ out' = IF raised' THEN << >> ELSE get_maxflag(flags)
    /\ call' = [op |-> "get_maxflag", n |-> 0, iflag |-> 0, ii |-> None]
    /\ UNCHANGED <<flags, dcall, hcall, scall, ncall, fcall>>

Next == GetFlag \/ SetFlag \/ GetMaxflag

Spec == Init /\ [][Next]_vars

\* get_maxflag on one code, missing, zero or with sub-flags of any digit
InitMaxflag ==
    /\ \E c \in {Sentinel, 0} \cup WideCodes(MaxWideSub) : flags = <<c>>
    /\ out = << >>
    /\ call = NoCall
    /\ raised = FALSE
    /\ dcall = Idle
    /\ hcall = Idle
    /\ scall = Idle
    /\ ncall = Idle
    /\ fcall = Idle

NextMaxflag == GetMaxflag

SpecMaxflag == InitMaxflag /\ [][NextMaxflag]_vars

\* ------------------------------------------------------- division.py: calls
InitDivision ==
    /\ FlagsIdle
    /\ \E a \in NumArrays, b \in NumArrays :
          /\ Len(a) = Len(b)
          /\ dcall = [op |-> "none", a |-> a, b |-> b]
    /\ hcall = Idle
    /\ scall = Idle
    /\ ncall = Idle
    /\ fcall = Idle

\* out = division(a, b, otherwise, prec)
Division ==
    \E otherwise \in Otherwises, prec \in (-MaxVal)..MaxVal :
        /\ dcall.op = "none"
        /\ dcall' = [op |-> "division", a |-> dcall.a, b |-> dcall.b,
                     otherwise |-> otherwise, prec |-> prec,
                     out |-> division(dcall.a, dcall.b, otherwise, prec)]
        /\ UNCHANGED <<flagvars, hcall, scall, ncall, fcall>>

\* out = div(a, b, otherwise, prec)
Div ==
    \E otherwise \in Otherwises, prec \in (-MaxVal)..MaxVal :
        /\ dcall.op = "none"
        /\ dcall' = [op |-> "div", a |-> dcall.a, b |-> dcall.b,
                     otherwise |-> otherwise, prec |-> prec,
                     out |-> div(dcall.a, dcall.b, otherwise, prec)]
        /\ UNCHANGED <<flagvars, hcall, scall, ncall, fcall>>

NextDivision == Division \/ Div

SpecDivision == InitDivision /\ [][NextDivision]_vars

\* ------------------------------------------------------ heaviside.py: calls
InitHeaviside ==
    /\ FlagsIdle
    /\ dcall = Idle
    /\ \E x \in NumArrays : hcall = [op |-> "none", x |-> x]
    /\ scall = Idle
    /\ ncall = Idle
    /\ fcall = Idle

\* out = heaviside(x, value, unitstep, zero)
Heaviside ==
    \E value \in (-MaxVal)..MaxVal, unitstep \in BOOLEAN, zero \in BOOLEAN :
        /\ hcall.op = "none"
        /\ LET r == heaviside(hcall.x, value, unitstep, zero)
           IN  hcall' = [op |-> "heaviside", x |-> hcall.x, value |-> value,
                         unitstep |-> unitstep, zero |-> zero,
                         kind |-> r.kind, out |-> r.out]
        /\ UNCHANGED <<flagvars, dcall, scall, ncall, fcall>>

NextHeaviside == Heaviside

SpecHeaviside == InitHeaviside /\ [][NextHeaviside]_vars

\* ---------------------------------------------------------- sread.py: calls
InitSread ==
    /\ FlagsIdle
    /\ dcall = Idle
    /\ hcall = Idle
    /\ ncall = Idle
    /\ fcall = Idle
    /\ \E file \in Files : scall = [op |-> "none", file |-> file]

\* var = sread(file, nc, cskip, skip, fill=fill, fill_value=fill_value,
\*             comment=comment, skip_blank=skip_blank)
Sread ==
    \E nc \in Ncs, cskip \in 0..MaxCskip, skip \in 0..MaxSkip,
       fill \in BOOLEAN, comment \in BOOLEAN, skip_blank \in BOOLEAN :
        /\ scall.op = "none"
        /\ LET r == sread(scall.file, nc, cskip, skip, fill, comment, skip_blank)
           IN  scall' = [op |-> "sread", file |-> scall.file, nc |-> nc,
                         cskip |-> cskip, skip |-> skip, fill |-> fill,
                         comment |-> comment, skip_blank |-> skip_blank,
                         kind |-> r.kind, var |-> r.var, nr |-> r.nr,
                         iinc |-> r.iinc, nnc |-> r.nnc]
        /\ UNCHANGED <<flagvars, dcall, hcall, ncall, fcall>>

NextSread == Sread

SpecSread == InitSread /\ [][NextSread]_vars

\* ----------------------------------------------------- readnetcdf.py: calls
InitNetcdf ==
    /\ FlagsIdle
    /\ dcall = Idle
    /\ hcall = Idle
    /\ scall = Idle
    /\ \E f \in NcFiles : ncall = [op |-> "none", file |-> f]
    /\ fcall = Idle

\* ret = readnetcdf(file, reform=..., variables=..., codes=..., units=...,
\*                  longnames=..., sort=...)
Readnetcdf ==
    \E reform \in BOOLEAN, variables \in BOOLEAN, codes \in BOOLEAN,
       units \in BOOLEAN, longnames \in BOOLEAN, sort \in BOOLEAN :
        /\ ncall.op = "none"
        /\ \E r \in readnetcdf(ncall.file, reform, variables, codes, units,
                               longnames, sort) :
              ncall' = [op |-> "readnetcdf", file |-> ncall.file,
                        reform |-> reform, variables |-> variables,
                        codes |-> codes, units |-> units,
                        longnames |-> longnames, sort |-> sort,
                        kind |-> r.kind, ret |-> r.ret]
        /\ UNCHANGED <<flagvars, dcall, hcall, scall, fcall>>

NextNetcdf == Readnetcdf

SpecNetcdf == InitNetcdf /\ [][NextNetcdf]_vars

\* ------------------------------------------------------------ ftp.py: calls
InitFtp ==
    /\ FlagsIdle
    /\ dcall = Idle
    /\ hcall = Idle
    /\ scall = Idle
    /\ ncall = Idle
    /\ \E f \in RemoteFiles :
          fcall = [op |-> "none", pc |-> "idle", remote |-> f, listed |-> f,
                   rsize |-> -1, local |-> -1, ret |-> FALSE]

\* get_check_*(ftp, fname) is called: rsize = get_size(ftp, fname)
GetSize ==
    \E fn \in GetCheckFunctions :
        /\ fcall.op = "none"
        /\ fcall' = [fcall EXCEPT !.op = fn, !.pc = "get",
                                  !.rsize = get_size(fcall.remote),
                                  !.listed = fcall.remote]
        /\ UNCHANGED <<flagvars, dcall, hcall, scall, ncall>>

\* the server changes the file after it has been listed
RemoteModified ==
    /\ fcall.op # "idle"
    /\ fcall.pc = "get"
    /\ fcall.remote = fcall.listed
    /\ \E f \in Modified(fcall.remote) : fcall' = [fcall EXCEPT !.remote = f]
    /\ UNCHANGED <<flagvars, dcall, hcall, scall, ncall>>

\* get_binary / get_unix_ascii / get_windows_ascii(ftp, fname): the file is
\* retrieved, written and closed
Get ==
    /\ fcall.op # "idle"
    /\ fcall.pc = "get"
    /\ fcall' = [fcall EXCEPT !.pc = "stat",
                              !.local = Download(fcall.op, fcall.remote)]
    /\ UNCHANGED <<flagvars, dcall, hcall, scall, ncall>>

\* lsize = os.stat(fname).st_size, and the comparison returned
GetCheck ==
    /\ fcall.op # "idle"
    /\ fcall.pc = "stat"
    /\ fcall' = [fcall EXCEPT !.pc = "done",
                              !.ret = get_check(fcall.rsize, fcall.local)]
    /\ UNCHANGED <<flagvars, dcall, hcall, scall, ncall>>

NextFtp == GetSize \/ RemoteModified \/ Get \/ GetCheck

SpecFtp == InitFtp /\ [][NextFtp]_vars

TypeOK ==
    /\ flags \in Seq(Int)
    /\ out \in Seq(Int)
    /\ call.op \in {"none", "idle", "get_flag", "set_flag", "get_maxflag"}
    /\ raised \in BOOLEAN

\* ------------------------------------------------------------ decimal digits
RECURSIVE DecimalDigits(_)
\* the decimal representation of c >= 0, most significant digit first
DecimalDigits(c) ==
    IF c < 10 THEN <<c>> ELSE Append(DecimalDigits(c \div 10), c % 10)

NumDigits(c) == Len(DecimalDigits(c))

\* the sub-flag digits of a positive code: every digit after the first
SubFlagDigits(c) == {DecimalDigits(c)[k] : k \in 2..NumDigits(c)}

\* index i is one set_flag was asked to set
Selected(i) == call.ii.none \/ i \in call.ii.idx

\* ------------------------------------------------------------------- claims

\* C1: get_flag of a positive code c with d digits, at a position n < d, is
\* the digit of c at position n counted from the most significant digit,
\* (c div 10^(d-1-n)) mod 10; at n = 0 it is the leading digit.
C1_GetFlagIsDigit ==
    call.op = "get_flag" =>
        \A i \in DOMAIN flags :
            (flags[i] > 0 /\ call.n < NumDigits(flags[i])) =>
                /\ out[i] = DecimalDigits(flags[i])[call.n + 1]
                /\ out[i] = (flags[i] \div Pow10(NumDigits(flags[i]) - 1 - call.n)) % 10

C1_Witness ==
    /\ call.op = "get_flag"
    /\ call.n = 1
    /\ \E i \in DOMAIN flags : NumDigits(flags[i]) = 4 /\ flags[i] > 0 /\ out[i] = 2

\* C2: get_flag of an element <= 0 (the missing value -9999 or zero) is -2
\* at every position.
C2_GetFlagMissing ==
    call.op = "get_flag" =>
        \A i \in DOMAIN flags : flags[i] <= 0 => out[i] = -2

C2_Witness ==
    /\ call.op = "get_flag"
    /\ call.n = 0
    /\ \E i \in DOMAIN flags : flags[i] = 0 /\ out[i] = -2
    /\ \E i \in DOMAIN flags : flags[i] = Sentinel /\ out[i] = -2

\* C3: get_flag of a positive code with d digits at a position n >= d is -1.
C3_GetFlagAbsent ==
    call.op = "get_flag" =>
        \A i \in DOMAIN flags :
            (flags[i] > 0 /\ call.n >= NumDigits(flags[i])) => out[i] = -1

C3_Witness ==
    /\ call.op = "get_flag"
    /\ \E i \in DOMAIN flags :
          flags[i] > 0 /\ call.n = NumDigits(flags[i]) /\ out[i] = -1

\* C4: round trip: after set_flag(flags, n, iflag) the flag at position n of
\* every entry that was set is iflag.
C4_RoundTrip ==
    call.op = "set_flag" =>
        \A i \in DOMAIN out :
            Selected(i) => get_flag_elem(out[i], call.n) = call.iflag

C4_Witness ==
    /\ call.op = "set_flag"
    /\ call.ii.none
    /\ \E i \in DOMAIN flags :
          /\ get_flag_elem(flags[i], call.n) \in 0..9
          /\ get_flag_elem(flags[i], call.n) # call.iflag
          /\ get_flag_elem(out[i], call.n) = call.iflag

\* C5: set_flag leaves every digit of a code other than the one at position n
\* as it was, and keeps the number of digits of a code that has more than n.
C5_OtherDigitsKept ==
    call.op = "set_flag" =>
        \A i \in DOMAIN flags :
            Selected(i) =>
                /\ \A m \in 0..(NumDigits(flags[i]) - 1) :
                      m # call.n =>
                          get_flag_elem(out[i], m) = get_flag_elem(flags[i], m)
                /\ NumDigits(flags[i]) > call.n =>
                      NumDigits(out[i]) = NumDigits(flags[i])

C5_Witness ==
    /\ call.op = "set_flag"
    /\ call.n = 2
    /\ \E i \in DOMAIN flags :
          /\ Selected(i)
          /\ NumDigits(flags[i]) = 4
          /\ out[i] # flags[i]

\* C6: extension: set_flag at a position n >= d of a code with d digits gives
\* a code of n+1 digits: the d digits of the code, then zeros at the
\* positions d..n-1, then iflag at position n.
C6_Extension ==
    call.op = "set_flag" =>
        \A i \in DOMAIN flags :
            (Selected(i) /\ call.n >= NumDigits(flags[i])) =>
                /\ NumDigits(out[i]) = call.n + 1
                /\ DecimalDigits(out[i]) =
                      DecimalDigits(flags[i])
                      \o [k \in 1..(call.n - NumDigits(flags[i])) |-> 0]
                      \o <<call.iflag>>

C6_Witness ==
    /\ call.op = "set_flag"
    /\ call.n = 3
    /\ call.iflag = 2
    /\ \E i \in DOMAIN flags :
          Selected(i) /\ flags[i] = 9 /\ out[i] = 9002

\* C7: with an index subset ii, set_flag returns every entry at an index not
\* in ii equal to the input entry.
C7_UnselectedUnchanged ==
    call.op = "set_flag" =>
        \A i \in DOMAIN flags : ~Selected(i) => out[i] = flags[i]

\* C8: idempotence: setting the same flag to the same value again changes
\* nothing.
C8_Idempotent ==
    call.op = "set_flag" =>
        set_flag_value(out, call.n, call.iflag, call.ii) = out

C8_Witness ==
    /\ call.op = "set_flag"
    /\ call.ii.none
    /\ \A i \in DOMAIN flags : out[i] # flags[i]
    /\ set_flag_value(out, call.n, call.iflag, call.ii) = out

\* C9: no call changes the caller's array: not set_flag, whether it extends
\* entries or sets a subset, and not get_flag or get_maxflag.
C9_InputNotMutated == [][flags' = flags]_vars

C9_Witness ==
    /\ call.op = "set_flag"
    /\ ~call.ii.none
    /\ call.ii.idx # DOMAIN flags
    /\ \E i \in call.ii.idx : NumDigits(out[i]) > NumDigits(flags[i])
    /\ flags \in Arrays

\* C10: get_maxflag of a positive code that has sub-flags, all of them in
\* {0,1,2}, is 2 if a sub-flag is 2, else 1 if a sub-flag is 1, else 0.
C10_MaxflagPrecedence ==
    call.op = "get_maxflag" =>
        \A i \in DOMAIN flags :
            (/\ flags[i] > 0
             /\ NumDigits(flags[i]) >= 2
             /\ SubFlagDigits(flags[i]) \subseteq {0, 1, 2}) =>
                out[i] = IF 2 \in SubFlagDigits(flags[i]) THEN 2
                         ELSE IF 1 \in SubFlagDigits(flags[i]) THEN 1
                         ELSE 0

C10_Witness ==
    /\ call.op = "get_maxflag"
    /\ \E i \in DOMAIN flags :
          flags[i] > 0 /\ SubFlagDigits(flags[i]) = {0, 1, 2} /\ out[i] = 2
    /\ \E i \in DOMAIN flags :
          flags[i] > 0 /\ SubFlagDigits(flags[i]) = {0, 1} /\ out[i] = 1

\* C11: get_maxflag gives -1 for a positive code that is the primary digit
\* alone and -2 for an element <= 0, and 0 for neither.
C11_MaxflagMissingVsBare ==
    call.op = "get_maxflag" =>
        \A i \in DOMAIN flags :
            /\ flags[i] <= 0 => out[i] = -2
            /\ (flags[i] > 0 /\ NumDigits(flags[i]) = 1) => out[i] = -1

C11_Witness ==
    /\ call.op = "get_maxflag"
    /\ \E i \in DOMAIN flags : flags[i] <= 0 /\ out[i] = -2
    /\ \E i \in DOMAIN flags : flags[i] \in 1..9 /\ out[i] = -1

C14_IndexLengthMinusN ==
    call.op = "get_flag" =>
        \A i \in DOMAIN flags :
            (flags[i] > 0 /\ call.n >= 1 /\ call.n < NumDigits(flags[i])) =>
                out[i] = DecimalDigits(flags[i])[(NumDigits(flags[i]) - call.n) + 1]

\* C14 amended: for n >= 1 get_flag gives the digit at index n, indices
\* counted from the most significant digit as index 0.
C14_IndexN ==
    call.op = "get_flag" =>
        \A i \in DOMAIN flags :
            (flags[i] > 0 /\ call.n >= 1 /\ call.n < NumDigits(flags[i])) =>
                out[i] = DecimalDigits(flags[i])[call.n + 1]

C14_Witness ==
    /\ call.op = "get_flag"
    /\ call.n >= 1
    /\ \E i \in DOMAIN flags :
          /\ flags[i] > 0
          /\ call.n < NumDigits(flags[i])
          /\ out[i] = DecimalDigits(flags[i])[call.n + 1]
          /\ out[i] # DecimalDigits(flags[i])[(NumDigits(flags[i]) - call.n) + 1]

\* C15: get_flag and get_maxflag end without an exception on every array of
\* non-negative codes and missing values, and every entry of their result is
\* a digit, -1 or -2; set_flag ends without an exception on positive codes.
C15_NoException ==
    /\ call.op \in {"get_flag", "get_maxflag"} =>
          /\ ~raised
          /\ DOMAIN out = DOMAIN flags
          /\ \A i \in DOMAIN out : out[i] \in (-2)..9
    /\ call.op = "set_flag" => (~raised /\ DOMAIN out = DOMAIN flags)

C15_Witness ==
    /\ call.op = "get_flag"
    /\ call.n = MaxN
    /\ ~raised
    /\ \E i \in DOMAIN flags : flags[i] = 0 /\ out[i] = -2
    /\ \E i \in DOMAIN flags : flags[i] \in 1..9 /\ out[i] = -1

\* C16: division and div give, for each element, a/b where |b| > |prec| and
\* otherwise where |b| <= |prec|.
C16_DivisionOrOtherwise ==
    dcall.op \in {"division", "div"} =>
        /\ DOMAIN dcall.out = DOMAIN dcall.a
        /\ \A i \in DOMAIN dcall.a :
              /\ Abs(dcall.b[i]) > Abs(dcall.prec) =>
                    /\ dcall.out[i].den > 0
                    /\ dcall.out[i].num * dcall.b[i] = dcall.a[i] * dcall.out[i].den
              /\ Abs(dcall.b[i]) <= Abs(dcall.prec) =>
                    dcall.out[i] = dcall.otherwise

C16_Witness ==
    /\ dcall.op = "div"
    /\ dcall.prec # 0
    /\ \E i \in DOMAIN dcall.a :
          /\ Abs(dcall.b[i]) = Abs(dcall.prec)
          /\ dcall.out[i] = NaN
    /\ \E i \in DOMAIN dcall.a :
          /\ Abs(dcall.b[i]) > Abs(dcall.prec)
          /\ dcall.out[i] = [num |-> -1, den |-> 2]

\* C17: heaviside gives, for each element, value*H(x): H = 0 for x < 0 and
\* H = 1 for x > 0 in every mode; H(0) = 1/2 by default, 1 with unitstep, 0
\* with zero.
C17_HeavisideValues ==
    (hcall.op = "heaviside" /\ ~(hcall.unitstep /\ hcall.zero)) =>
        /\ hcall.kind = "array"
        /\ DOMAIN hcall.out = DOMAIN hcall.x
        /\ \A i \in DOMAIN hcall.x :
              /\ hcall.x[i] < 0 => hcall.out[i] = Number(0)
              /\ hcall.x[i] > 0 => hcall.out[i] = Number(hcall.value)
              /\ (hcall.x[i] = 0 /\ hcall.unitstep) =>
                    hcall.out[i] = Number(hcall.value)
              /\ (hcall.x[i] = 0 /\ hcall.zero) => hcall.out[i] = Number(0)
              /\ (hcall.x[i] = 0 /\ ~hcall.unitstep /\ ~hcall.zero) =>
                    /\ hcall.out[i].den > 0
                    /\ 2 * hcall.out[i].num = hcall.value * hcall.out[i].den

C17_Witness ==
    /\ hcall.op = "heaviside"
    /\ hcall.kind = "array"
    /\ hcall.unitstep
    /\ hcall.value = 2
    /\ \E i \in DOMAIN hcall.x : hcall.x[i] = 0 /\ hcall.out[i] = Number(2)
    /\ \E i \in DOMAIN hcall.x : hcall.x[i] < 0 /\ hcall.out[i] = Number(0)

\* C18: on error, unitstep and zero both True, heaviside returns False.
C18_ReturnsFalseOnError ==
    (hcall.op = "heaviside" /\ hcall.unitstep /\ hcall.zero) =>
        hcall.kind = "False"

\* the row the fill policy describes for line r: the selected columns the
\* line has, in the order selected, then fill_value for each missing one
FilledRow(r, nres, iinc) ==
    LET have == SelectSeq(iinc, LAMBDA c : c < nres)
    IN  [j \in DOMAIN have |-> <<r, have[j]>>] \o Fills(Len(iinc) - Len(have))

\* sread got as far as making rows: the file has lines to read and the
\* column selection is not empty
SreadReads == scall.op = "sread" /\ scall.nr > 0 /\ scall.iinc # << >>

\* C19: with fill=True sread returns its rows whatever the column selection,
\* and the row of every line shorter than the largest selected index is the
\* selected columns the line has followed by fill_value for each missing one
\* (nnc entries); with fill=False no row is made of such a line (None is
\* returned instead) and nothing is raised.
C19_FillShortLines ==
    SreadReads =>
        IF scall.fill
        THEN /\ scall.kind \in {"row", "rows"}
             /\ \A k \in DOMAIN scall.var :
                   LET row == scall.var[k]
                       nres == Nres(scall.file, row.line)
                   IN  Miinc(scall.iinc) >= nres =>
                          /\ Len(row.cells) = scall.nnc
                          /\ row.cells = FilledRow(row.line, nres, scall.iinc)
        ELSE /\ scall.kind \in {"row", "rows", "None"}
             /\ \A k \in DOMAIN scall.var :
                   Miinc(scall.iinc) < Nres(scall.file, scall.var[k].line)

\* the lines of the file after the skipped ones that are neither blank nor
\* comment lines
DataLines ==
    {r \in (scall.skip + 1)..Len(scall.file) :
        /\ ~IsBlank(scall.file[r])
        /\ ~IsComment(scall.file[r], scall.comment)}

\* C20: when sread returns rows, with skip_blank=False no row is made of a
\* line after the first blank line that follows the skipped lines; with
\* skip_blank=True the rows are made of all non-blank, non-comment lines after
\* the skipped ones, in file order.
C20_BlankLineStops ==
    (scall.op = "sread" /\ scall.kind \in {"row", "rows"}) =>
        IF scall.skip_blank
        THEN /\ {scall.var[k].line : k \in DOMAIN scall.var} = DataLines
             /\ \A j, k \in DOMAIN scall.var :
                   j < k => scall.var[j].line < scall.var[k].line
        ELSE \A k \in DOMAIN scall.var :
                \A b \in (scall.skip + 1)..(scall.var[k].line - 1) :
                    ~IsBlank(scall.file[b])


\* the variable of the file of ncall whose name has rank i among its names
VariableOfRank(i) ==
    LET f == ncall.file
    IN  f[CHOOSE p \in DOMAIN f :
            Cardinality({q \in DOMAIN f : f[q].name < f[p].name}) = i - 1]

\* the list readnetcdf was asked for: the first of variables, codes, units
\* and longnames that is set
NcAsked ==
    IF ncall.variables THEN "variables"
    ELSE IF ncall.codes THEN "codes"
    ELSE IF ncall.units THEN "units"
    ELSE IF ncall.longnames THEN "longnames"
    ELSE "none"

\* C21: with sort=True and no reform/squeeze, readnetcdf returns the variable
\* names in ascending order, and the codes, units and long names in the order
\* of the sorted names: entry i is that of the i-th sorted variable, with -1
\* or '' if the variable has no such attribute.
C21_SortedTogether ==
    (ncall.op = "readnetcdf" /\ ncall.sort /\ ~ncall.reform /\ NcAsked # "none") =>
        /\ ncall.kind = "list"
        /\ DOMAIN ncall.ret = DOMAIN ncall.file
        /\ \A i \in DOMAIN ncall.file :
              LET v == VariableOfRank(i)
              IN  /\ NcAsked = "variables" => ncall.ret[i] = v.name
                  /\ NcAsked = "codes" =>
                        ncall.ret[i] = IF "code" \in v.attrs THEN CodeOf(v) ELSE -1
                  /\ NcAsked = "units" =>
                        ncall.ret[i] = IF "units" \in v.attrs THEN UnitsOf(v)
                                       ELSE << >>
                  /\ NcAsked = "longnames" =>
                        ncall.ret[i] = IF "long_name" \in v.attrs
                                       THEN LongNameOf(v) ELSE << >>

C21_Witness ==
    /\ ncall.op = "readnetcdf"
    /\ ncall.sort
    /\ ~ncall.reform
    /\ NcAsked = "codes"
    /\ Len(ncall.file) = 2
    /\ ncall.file[1].name > ncall.file[2].name
    /\ "code" \in ncall.file[1].attrs
    /\ "code" \notin ncall.file[2].attrs
    /\ ncall.ret = <<-1, CodeOf(ncall.file[1])>>

\* C22: get_check_binary, get_check_unix_ascii and get_check_windows_ascii
\* take the remote size before the download starts, and return True if the
\* size listed then equals the size of the local file after the download has
\* closed it, and False, not an exception, if it does not.
C22_SizeCheck ==
    fcall.op \in GetCheckFunctions =>
        /\ fcall.rsize = Bytes(fcall.listed)
        /\ fcall.pc = "get" => fcall.local = -1
        /\ fcall.pc = "done" =>
              /\ fcall.local = Download(fcall.op, fcall.remote)
              /\ fcall.ret \in BOOLEAN
              /\ fcall.ret <=> (Bytes(fcall.listed) = fcall.local)

C22_Witness ==
    /\ fcall.op = "get_check_windows_ascii"
    /\ fcall.pc = "done"
    /\ fcall.remote = fcall.listed
    /\ fcall.local > fcall.rsize
    /\ fcall.ret = FALSE

\* C23: with an index subset ii, set_flag returns an entry at an index not in
\* ii that has more than n digits equal to the input entry.
C23_UnselectedLongUnchanged ==
    (call.op = "set_flag" /\ ~call.ii.none) =>
        /\ ~raised
        /\ \A i \in DOMAIN flags :
              (~Selected(i) /\ NumDigits(flags[i]) > call.n) => out[i] = flags[i]

C23_Witness ==
    /\ call.op = "set_flag"
    /\ ~call.ii.none
    /\ \E i \in DOMAIN flags :
          ~Selected(i) /\ NumDigits(flags[i]) > call.n /\ out[i] = flags[i]
    /\ \E i \in DOMAIN flags : Selected(i) /\ out[i] # flags[i]

\* the largest element of a non-empty finite set of integers
SetMax(S) == CHOOSE m \in S : \A x \in S : x <= m

\* C24: get_maxflag(c) is the maximum of -2 and get_flag(c, n) over
\* n = 1..18; for a positive code with sub-flags it is the largest sub-flag
\* digit, whatever digit 0-9 that is, and it is 0 for 90.
C24_MaxOverPositions ==
    call.op = "get_maxflag" =>
        /\ ~raised
        /\ \A i \in DOMAIN flags :
              /\ out[i] = SetMax({-2} \cup {get_flag(flags, n)[i] :
                                                n \in 1..n_flags_precip})
              /\ (flags[i] > 0 /\ NumDigits(flags[i]) >= 2) =>
                    out[i] = SetMax(SubFlagDigits(flags[i]))
              /\ flags[i] = 90 => out[i] = 0

C24_Witness ==
    /\ call.op = "get_maxflag"
    /\ \E i \in DOMAIN flags :
          flags[i] > 0 /\ SubFlagDigits(flags[i]) = {0, 7} /\ out[i] = 7

\* what the call made gives for the array of the one entry flags[i]
AloneAt(i) ==
    IF call.op = "get_flag" THEN get_flag(<<flags[i]>>, call.n)[1]
    ELSE IF call.op = "get_maxflag" THEN get_maxflag(<<flags[i]>>)[1]
    ELSE set_flag_value(<<flags[i]>>, call.n, call.iflag,
                        IF Selected(i) THEN None ELSE Indices({}))[1]

====
